---- MODULE Spec2Model ----
(***************************************************************************)
(* Model of the image-reference resolution core of aqua-scan-gate:         *)
(* ConvertImageRef (the reference parser), GetRegistryName and             *)
(* normalizeHostname (the registry-name lookup), and the registry-name     *)
(* cache guarded by registryCacheMu.                                       *)
(*                                                                         *)
(* Strings are sequences of one-character strings, so that the Go string   *)
(* functions (Contains, Index, LastIndex, Split, TrimPrefix, slicing) are   *)
(* computed position by position as the code computes them.  Indices keep  *)
(* Go's convention: 0-based, -1 for "absent".                              *)
(***************************************************************************)
EXTENDS Integers, Sequences, FiniteSets, TLC

VARIABLES
  registryCache,         \* mockAquaClient.registryCache: hostname -> registry name
  registryCacheRefresh,  \* mockAquaClient.registryCacheRefresh: time of the last population
  registryCacheMu,       \* mockAquaClient.registryCacheMu: the reader/writer lock
  imageRef,              \* argument of the ConvertImageRef call
  form,                  \* the parts the argument was put together from
  locals,                \* ConvertImageRef's locals when it calls GetRegistryName
  result,                \* what ConvertImageRef returned
  hostname,              \* argument of the GetRegistryName call
  lookup,                \* what GetRegistryName returned
  pc,                    \* position of the call: "ready" before it, "done" after it
  rd,                    \* the frames of the concurrent GetRegistryName calls
  wr,                    \* the frame of the cache refresh
  cfg,                   \* main: the registry-mirror configuration and the start-up
  req,                   \* SignRequest: the outbound request and the call's frame
  img                    \* GetImageInfo: the call's frame

vars == <<registryCache, registryCacheRefresh, registryCacheMu,
          imageRef, form, locals, result, hostname, lookup, pc, rd, wr,
          cfg, req, img>>

---------------------------------------------------------------------------
(* Bounds of the model. *)

\* Longest image reference drawn as an input of ConvertImageRef.
MaxLen == 6

\* Longest host, port, repository and tag of a host:port/repository[:tag] input.
MaxPartLen == 2

\* Longest hostname (scheme prefix not counted) drawn as an input of GetRegistryName.
MaxHostLen == 2

\* Number of goroutines that call GetRegistryName concurrently.
NumReaders == 2

\* Number of cache refreshes in one behaviour.
MaxRefreshes == 2

---------------------------------------------------------------------------
(* Go's strings package, on sequences of characters. *)

\* strings.Contains(s, c) for a one-character c.
Contains(s, c) == \E i \in 1..Len(s) : s[i] = c

\* strings.Index(s, c): 0-based index of the first c, -1 when absent.
Index(s, c) ==
  IF Contains(s, c)
    THEN (CHOOSE i \in 1..Len(s) : s[i] = c /\ \A j \in 1..(i-1) : s[j] # c) - 1
    ELSE -1

\* strings.LastIndex(s, c): 0-based index of the last c, -1 when absent.
LastIndex(s, c) ==
  IF Contains(s, c)
    THEN (CHOOSE i \in 1..Len(s) : s[i] = c /\ \A j \in (i+1)..Len(s) : s[j] # c) - 1
    ELSE -1

\* The Go slice expression s[lo:hi].
Slice(s, lo, hi) == SubSeq(s, lo + 1, hi)

\* strings.HasPrefix(s, p).
HasPrefix(s, p) == Len(s) >= Len(p) /\ SubSeq(s, 1, Len(p)) = p

\* strings.TrimPrefix(s, p): s without the leading p, s itself when p does not lead.
TrimPrefix(s, p) == IF HasPrefix(s, p) THEN SubSeq(s, Len(p) + 1, Len(s)) ELSE s

---------------------------------------------------------------------------
(* String literals of the code. *)

Latest == <<"l", "a", "t", "e", "s", "t">>
DockerIO == <<"d", "o", "c", "k", "e", "r", ".", "i", "o">>
Https == <<"h", "t", "t", "p", "s", ":", "/", "/">>
Http == <<"h", "t", "t", "p", ":", "/", "/">>

\* The empty string, Go's zero value of the named results.
Empty == << >>

---------------------------------------------------------------------------
(* normalizeHostname and GetRegistryName. *)

\* Mutant of normalizeHostname: the "http://" prefix is left in place.
normalizeHostnameHttpsOnly(h) == TrimPrefix(h, Https)

\* normalizeHostname: one TrimPrefix of "https://", then one of "http://".
normalizeHostname(h) == TrimPrefix(TrimPrefix(h, Https), Http)

\* The map read registryCache[hostname]: the pair (registryName, found).
MapRead(cache, key) ==
  IF key \in DOMAIN cache
    THEN [registryName |-> cache[key], found |-> TRUE]
    ELSE [registryName |-> "", found |-> FALSE]

\* GetRegistryName's return for a table and an argument: the registry name, or
\* the error "registry not found in Aqua: <normalized hostname>".
GetRegistryNameOf(cache, h) ==
  LET key == normalizeHostname(h)
      got == MapRead(cache, key)
  IN  IF ~got.found
        THEN [err |-> TRUE, registryName |-> "", notFound |-> key]
        ELSE [err |-> FALSE, registryName |-> got.registryName, notFound |-> Empty]

---------------------------------------------------------------------------
(* ConvertImageRef, stage by stage. *)

\* Mutant of StripDigest: cuts at the last '@' instead of the first.
StripDigestAtLast(ref) ==
  IF Contains(ref, "@") THEN Slice(ref, 0, LastIndex(ref, "@")) ELSE ref

\* "Remove digest if present": parts[0] of strings.Split(imageRef, "@").
StripDigest(ref) ==
  IF Contains(ref, "@") THEN Slice(ref, 0, Index(ref, "@")) ELSE ref

\* Mutant of HandleTag: without the port branch, every last colon starts a tag.
HandleTagNoPort(ref) ==
  LET tagIdx == LastIndex(ref, ":") IN
  IF tagIdx > 0
    THEN [tag |-> Slice(ref, tagIdx + 1, Len(ref)),
          imageRef |-> Slice(ref, 0, tagIdx), hasPort |-> FALSE]
    ELSE [tag |-> Latest, imageRef |-> ref, hasPort |-> FALSE]

\* Mutant of HandleTag: a last colon with no '/' before it is a port whether
\* or not a '.' precedes it.
HandleTagPortWithoutDot(ref) ==
  LET tagIdx == LastIndex(ref, ":") IN
  IF tagIdx > 0
    THEN LET beforeColon == Slice(ref, 0, tagIdx) IN
         IF Contains(beforeColon, "/")
           THEN [tag |-> Slice(ref, tagIdx + 1, Len(ref)),
                 imageRef |-> Slice(ref, 0, tagIdx), hasPort |-> FALSE]
           ELSE [tag |-> Latest, imageRef |-> ref, hasPort |-> TRUE]
    ELSE [tag |-> Latest, imageRef |-> ref, hasPort |-> FALSE]

\* "Handle tag": the tag, the working reference and hasPort after the block.
HandleTag(ref) ==
  LET tagIdx == LastIndex(ref, ":") IN
  IF tagIdx > 0
    THEN LET beforeColon == Slice(ref, 0, tagIdx) IN
         IF Contains(beforeColon, "/")
           THEN \* colon after a slash: a tag
                [tag |-> Slice(ref, tagIdx + 1, Len(ref)),
                 imageRef |-> Slice(ref, 0, tagIdx), hasPort |-> FALSE]
           ELSE IF Contains(beforeColon, ".")
             THEN \* colon in the domain: a port
                  [tag |-> Latest, imageRef |-> ref, hasPort |-> TRUE]
             ELSE \* single name with colon: a tag
                  [tag |-> Slice(ref, tagIdx + 1, Len(ref)),
                   imageRef |-> Slice(ref, 0, tagIdx), hasPort |-> FALSE]
    ELSE [tag |-> Latest, imageRef |-> ref, hasPort |-> FALSE]

\* Mutant of LooksLikeRegistry: a ':' alone makes a registry, hasPort unread.
LooksLikeRegistryAnyColon(registryPart, hasPort) ==
  Contains(registryPart, ".") \/ Contains(registryPart, ":")

\* "Check if it looks like a registry (has . or :)".
LooksLikeRegistry(registryPart, hasPort) ==
  Contains(registryPart, ".") \/ (hasPort /\ Contains(registryPart, ":"))

\* "Handle registry and repository": hostname and repository of a working reference.
HandleRegistry(ref, hasPort) ==
  LET slashIdx == Index(ref, "/") IN
  IF slashIdx > 0
    THEN LET registryPart == Slice(ref, 0, slashIdx) IN
         IF LooksLikeRegistry(registryPart, hasPort)
           THEN [hostname |-> registryPart,
                 repository |-> Slice(ref, slashIdx + 1, Len(ref))]
           ELSE [hostname |-> DockerIO, repository |-> ref]
    ELSE [hostname |-> DockerIO, repository |-> ref]

\* The locals of ConvertImageRef where it calls GetRegistryName.
ParseImageRef(ref) ==
  LET t == HandleTag(StripDigest(ref))
      h == HandleRegistry(t.imageRef, t.hasPort)
  IN  [originalRef |-> ref, imageRef |-> t.imageRef, tag |-> t.tag,
       hasPort |-> t.hasPort, hostname |-> h.hostname, repository |-> h.repository]

\* Mutant of ErrorReturn: the error names the working reference, digest and
\* tag cut off, instead of the original one.
ErrorReturnWorkingRef(p, lk) ==
  [err |-> TRUE, registryName |-> "", imageName |-> Empty, tag |-> Empty,
   errRef |-> p.imageRef, errCause |-> lk.notFound]

\* Mutant of ErrorReturn: the parsed repository and tag returned with the error.
ErrorReturnPartial(p, lk) ==
  [err |-> TRUE, registryName |-> "", imageName |-> p.repository, tag |-> p.tag,
   errRef |-> p.originalRef, errCause |-> lk.notFound]

\* ConvertImageRef's return when the lookup fails: all three strings empty, and
\* the error "looking up registry name for <originalRef>: <lookup error>".
ErrorReturn(p, lk) ==
  [err |-> TRUE, registryName |-> "", imageName |-> Empty, tag |-> Empty,
   errRef |-> p.originalRef, errCause |-> lk.notFound]

\* ConvertImageRef's return for a table and an argument.
ConvertImageRefOf(cache, ref) ==
  LET p == ParseImageRef(ref)
      lk == GetRegistryNameOf(cache, p.hostname)
  IN  IF lk.err
        THEN ErrorReturn(p, lk)
        ELSE [err |-> FALSE, registryName |-> lk.registryName,
              imageName |-> p.repository, tag |-> p.tag,
              errRef |-> Empty, errCause |-> Empty]

---------------------------------------------------------------------------
(* Inputs. *)

\* All strings over alphabet A of length at most n.
StringsUpTo(A, n) == UNION {[1..k -> A] : k \in 0..n}

\* The characters the parser tells apart, and one ordinary character.
RefAlphabet == {"a", ".", ":", "/", "@"}

ImageRefs == StringsUpTo(RefAlphabet, MaxLen)

\* Placeholder of a variable that holds nothing yet.
NoValue == [none |-> TRUE]

\* An unlocked reader/writer lock.
Unlocked == [writer |-> FALSE, readers |-> {}]

\* Registry tables of the parser specifications: empty, Docker Hub alone, and
\* Docker Hub with registries whose hostnames the input references can carry.
EmptyCache == [k \in {} |-> ""]
DockerCache == [k \in {DockerIO} |-> "Docker Hub"]
DottedHosts ==
  {h \in StringsUpTo({"a", ".", ":"}, 3) : Contains(h, ".")}
FullCache ==
  [k \in {DockerIO} \cup DottedHosts |-> IF k = DockerIO THEN "Docker Hub" ELSE "Custom Registry"]
ParseCaches == {EmptyCache, DockerCache, FullCache}

---------------------------------------------------------------------------
(* Specification of one ConvertImageRef call on an arbitrary reference. *)

InitParse ==
  /\ registryCache \in ParseCaches
  /\ registryCacheRefresh = 0
  /\ registryCacheMu = Unlocked
  /\ imageRef \in ImageRefs
  /\ form = NoValue
  /\ locals = NoValue
  /\ result = NoValue
  /\ hostname = Empty
  /\ lookup = NoValue
  /\ pc = "ready"
  /\ rd = NoValue
  /\ wr = NoValue
  /\ cfg = NoValue
  /\ req = NoValue
  /\ img = NoValue

\* ConvertImageRef(ctx, imageRef): parse, look the hostname up, return.
ConvertImageRef ==
  /\ pc = "ready"
  /\ pc' = "done"
  /\ locals' = ParseImageRef(imageRef)
  /\ hostname' = locals'.hostname
  /\ lookup' = GetRegistryNameOf(registryCache, locals'.hostname)
  /\ result' = ConvertImageRefOf(registryCache, imageRef)
  /\ UNCHANGED <<registryCache, registryCacheRefresh, registryCacheMu, imageRef, form, rd, wr, cfg, req, img>>

NextParse == ConvertImageRef

SpecParse == InitParse /\ [][NextParse]_vars

---------------------------------------------------------------------------
(* Specification of one ConvertImageRef call on a reference of the form      *)
(* H:P/R or H:P/R:T.                                                         *)

\* Non-empty strings over alphabet A of length at most n.
NonEmptyUpTo(A, n) == StringsUpTo(A, n) \ {Empty}

\* H: a dotted host without '/'.
PortHosts == {h \in StringsUpTo({"a", "."}, MaxPartLen) : Contains(h, ".")}
\* P: a port.
Ports == NonEmptyUpTo({"5"}, MaxPartLen)
\* R: a non-empty path without ':'.
Paths == NonEmptyUpTo({"a", "/", "."}, MaxPartLen)
\* T: a tag without ':' or '/'.
Tags == NonEmptyUpTo({"a", "."}, MaxPartLen)

\* The reference H:P/R, and H:P/R:T when tagged.
PortRef(f) ==
  f.H \o <<":">> \o f.P \o <<"/">> \o f.R \o (IF f.tagged THEN <<":">> \o f.T ELSE Empty)

PortForms ==
  [H : PortHosts, P : Ports, R : Paths, T : Tags, tagged : {TRUE}]
    \cup [H : PortHosts, P : Ports, R : Paths, T : {Empty}, tagged : {FALSE}]

\* A table that knows every host:port of the inputs.
PortCache ==
  [k \in {h \o <<":">> \o q : h \in PortHosts, q \in Ports} |-> "Custom Registry"]

InitPort ==
  /\ registryCache \in {PortCache, DockerCache}
  /\ registryCacheRefresh = 0
  /\ registryCacheMu = Unlocked
  /\ form \in PortForms
  /\ imageRef = PortRef(form)
  /\ locals = NoValue
  /\ result = NoValue
  /\ hostname = Empty
  /\ lookup = NoValue
  /\ pc = "ready"
  /\ rd = NoValue
  /\ wr = NoValue
  /\ cfg = NoValue
  /\ req = NoValue
  /\ img = NoValue

SpecPort == InitPort /\ [][NextParse]_vars

\* C2: a reference H:P/R or H:P/R:T is parsed to host "H:P", repository R
\* and tag T ("latest" without T); the lookup is made with "H:P", and a found
\* registry is returned with R and that tag.
C2_PortIsNotTag ==
  pc = "done" =>
    LET hp == form.H \o <<":">> \o form.P
        t == IF form.tagged THEN form.T ELSE Latest
    IN  /\ locals.hostname = hp
        /\ hostname = hp
        /\ locals.repository = form.R
        /\ locals.tag = t
        /\ result.err = (hp \notin DOMAIN registryCache)
        /\ ~result.err => /\ result.registryName = registryCache[hp]
                          /\ result.imageName = form.R
                          /\ result.tag = t

\* C2 witness: a tagged reference with a port, found and returned with its tag.
C2_Witness ==
  /\ pc = "done"
  /\ form.tagged
  /\ ~result.err
  /\ hostname = form.H \o <<":">> \o form.P
  /\ result.imageName = form.R
  /\ result.tag = form.T

---------------------------------------------------------------------------
(* Specification of one GetRegistryName call on a hostname with or without   *)
(* a scheme prefix, against an arbitrary small table.                        *)

\* Hostnames proper: no scheme prefix of their own.  Two letters that differ
\* only in case, and the dot.
BareHosts == StringsUpTo({"g", "G", "."}, MaxHostLen)

\* What may precede the hostname in a lookup key.
Schemes == {Empty, Http, Https}

\* Keys a table may hold: hostnames, and keys stored with their scheme.
TableKeys == BareHosts \cup {Https \o <<"g">>, Http \o <<"g">>}

\* Tables of at most two entries (two entries carry different names).
LookupCaches ==
  {EmptyCache}
    \cup {[k \in {k1} |-> "A"] : k1 \in TableKeys}
    \cup {[k \in {k1, k2} |-> IF k = k1 THEN "A" ELSE "B"] : k1 \in TableKeys, k2 \in TableKeys}

InitLookup ==
  /\ registryCache \in LookupCaches
  /\ registryCacheRefresh = 0
  /\ registryCacheMu = Unlocked
  /\ form \in [scheme : Schemes, host : BareHosts]
  /\ hostname = form.scheme \o form.host
  /\ imageRef = Empty
  /\ locals = NoValue
  /\ result = NoValue
  /\ lookup = NoValue
  /\ pc = "ready"
  /\ rd = NoValue
  /\ wr = NoValue
  /\ cfg = NoValue
  /\ req = NoValue
  /\ img = NoValue

\* GetRegistryName(ctx, hostname), no writer being active.
GetRegistryName ==
  /\ pc = "ready"
  /\ pc' = "done"
  /\ lookup' = GetRegistryNameOf(registryCache, hostname)
  /\ UNCHANGED <<registryCache, registryCacheRefresh, registryCacheMu,
                 imageRef, form, locals, result, hostname, rd, wr, cfg, req, img>>

NextLookup == GetRegistryName

SpecLookup == InitLookup /\ [][NextLookup]_vars

\* Two lookup returns agree: both found with the same name, or both not found
\* with the same error.
SameReturn(a, b) ==
  /\ a.err = b.err
  /\ a.registryName = b.registryName
  /\ a.notFound = b.notFound

\* C7: for every hostname h and every table, the lookups of "https://" + h,
\* "http://" + h and h return the same result.
C7_SchemeInsensitive ==
  pc = "done" =>
    \A s \in Schemes :
      SameReturn(lookup, GetRegistryNameOf(registryCache, s \o form.host))

\* C7 witness: a lookup through a scheme prefix that found its entry, in a
\* table that also holds a key stored with its scheme.
C7_Witness ==
  /\ pc = "done"
  /\ form.scheme = Http
  /\ ~lookup.err
  /\ lookup.registryName = registryCache[form.host]
  /\ \E k \in DOMAIN registryCache : HasPrefix(k, Https)

\* strings.ToLower on the letters of BareHosts.
ToLower(h) == [i \in 1..Len(h) |-> IF h[i] = "G" THEN "g" ELSE h[i]]

\* C8: two hostnames that differ only in letter case resolve to the same
\* entry: their lookups return the same registry name, or both fail.
C8_CaseInsensitive ==
  pc = "done" =>
    \A h \in BareHosts :
      ToLower(h) = ToLower(form.host) =>
        LET other == GetRegistryNameOf(registryCache, form.scheme \o h)
        IN  other.err = lookup.err /\ other.registryName = lookup.registryName

---------------------------------------------------------------------------
(* Specification of the registry-name cache under concurrency: NumReaders    *)
(* goroutines run GetRegistryName statement by statement while the owning    *)
(* client refreshes the table.  The refresh is not part of the sources; it   *)
(* is modelled from the specification: the fetch runs before the lock is     *)
(* taken, the table is replaced and the timestamp recorded under the         *)
(* exclusive lock, and a failed fetch returns without touching either.       *)

Readers == 1..NumReaders

\* Arguments of the concurrent lookups.
CacheHostArgs == {<<"g">>, Https \o <<"h">>}

\* The table at construction, and the tables a fetch may deliver.
TableAtStart == [k \in {<<"g">>} |-> "A"]
FreshTables ==
  {EmptyCache,
   [k \in {<<"h">>} |-> "B"],
   [k \in {<<"g">>, <<"h">>} |-> IF k = <<"g">> THEN "C" ELSE "B"]}

\* A GetRegistryName frame outside a call.
IdleReader ==
  [pc |-> "idle", key |-> Empty, registryName |-> "", found |-> FALSE, seen |-> EmptyCache]

\* The refresh frame outside a refresh.
IdleRefresh ==
  [pc |-> "idle", round |-> 0, err |-> FALSE, fetched |-> EmptyCache,
   startTable |-> TableAtStart, startStamp |-> 0,
   before |-> TableAtStart, after |-> TableAtStart, complete |-> {TableAtStart}]

InitCache ==
  /\ registryCache = TableAtStart
  /\ registryCacheRefresh = 0
  /\ registryCacheMu = Unlocked
  /\ rd = [r \in Readers |-> IdleReader]
  /\ wr = IdleRefresh
  /\ cfg = NoValue
  /\ req = NoValue
  /\ img = NoValue
  /\ imageRef = Empty
  /\ form = NoValue
  /\ locals = NoValue
  /\ result = NoValue
  /\ hostname = Empty
  /\ lookup = NoValue
  /\ pc = "ready"

\* Mutant of CanRLock: the read lock is granted while a writer holds the lock.
CanRLockAnyway(mu) == TRUE

\* registryCacheMu.RLock() may proceed: no writer holds the lock.
CanRLock(mu) == ~mu.writer

\* registryCacheMu.Lock() may proceed: nobody holds the lock.
CanLock(mu) == ~mu.writer /\ mu.readers = {}

\* hostname = normalizeHostname(hostname), on entry of GetRegistryName.
Normalize(r) ==
  /\ rd[r].pc = "idle"
  /\ \E h \in CacheHostArgs :
       rd' = [rd EXCEPT ![r] = [IdleReader EXCEPT !.pc = "normalized",
                                                 !.key = normalizeHostname(h)]]
  /\ UNCHANGED <<registryCache, registryCacheRefresh, registryCacheMu, wr,
                 imageRef, form, locals, result, hostname, lookup, pc, cfg, req, img>>

\* m.registryCacheMu.RLock()
RLock(r) ==
  /\ rd[r].pc = "normalized"
  /\ CanRLock(registryCacheMu)
  /\ registryCacheMu' = [registryCacheMu EXCEPT !.readers = @ \cup {r}]
  /\ rd' = [rd EXCEPT ![r].pc = "rlocked"]
  /\ UNCHANGED <<registryCache, registryCacheRefresh, wr,
                 imageRef, form, locals, result, hostname, lookup, pc, cfg, req, img>>

\* registryName, found := m.registryCache[hostname]
ReadMap(r) ==
  /\ rd[r].pc = "rlocked"
  /\ LET got == MapRead(registryCache, rd[r].key) IN
     rd' = [rd EXCEPT ![r].pc = "read",
                      ![r].registryName = got.registryName,
                      ![r].found = got.found,
                      ![r].seen = registryCache]
  /\ UNCHANGED <<registryCache, registryCacheRefresh, registryCacheMu, wr,
                 imageRef, form, locals, result, hostname, lookup, pc, cfg, req, img>>

\* m.registryCacheMu.RUnlock()
RUnlock(r) ==
  /\ rd[r].pc = "read"
  /\ registryCacheMu' = [registryCacheMu EXCEPT !.readers = @ \ {r}]
  /\ rd' = [rd EXCEPT ![r].pc = "runlocked"]
  /\ UNCHANGED <<registryCache, registryCacheRefresh, wr,
                 imageRef, form, locals, result, hostname, lookup, pc, cfg, req, img>>

\* Mutant of Return: a miss starts a refresh of the table before it returns.
ReturnAndRefresh(r) ==
  /\ rd[r].pc = "runlocked"
  /\ rd' = [rd EXCEPT ![r] = IdleReader]
  /\ wr' = IF ~rd[r].found /\ wr.pc = "idle"
             THEN [wr EXCEPT !.pc = "fetching", !.err = FALSE,
                             !.startTable = registryCache,
                             !.startStamp = registryCacheRefresh]
             ELSE wr
  /\ UNCHANGED <<registryCache, registryCacheRefresh, registryCacheMu,
                 imageRef, form, locals, result, hostname, lookup, pc, cfg, req, img>>

\* if !found { return "", error }; return registryName, nil
Return(r) ==
  /\ rd[r].pc = "runlocked"
  /\ rd' = [rd EXCEPT ![r] = IdleReader]
  /\ UNCHANGED <<registryCache, registryCacheRefresh, registryCacheMu, wr,
                 imageRef, form, locals, result, hostname, lookup, pc, cfg, req, img>>

\* The owning client starts a refresh.
RefreshStart ==
  /\ wr.pc = "idle"
  /\ wr.round < MaxRefreshes
  /\ wr' = [wr EXCEPT !.pc = "fetching", !.round = @ + 1, !.err = FALSE,
                      !.startTable = registryCache, !.startStamp = registryCacheRefresh]
  /\ UNCHANGED <<registryCache, registryCacheRefresh, registryCacheMu, rd,
                 imageRef, form, locals, result, hostname, lookup, pc, cfg, req, img>>

\* The network fetch delivers a table; no lock is held meanwhile.
FetchOK ==
  /\ wr.pc = "fetching"
  /\ \E t \in FreshTables : wr' = [wr EXCEPT !.pc = "fetched", !.fetched = t]
  /\ UNCHANGED <<registryCache, registryCacheRefresh, registryCacheMu, rd,
                 imageRef, form, locals, result, hostname, lookup, pc, cfg, req, img>>

\* The network fetch fails.
FetchFail ==
  /\ wr.pc = "fetching"
  /\ wr' = [wr EXCEPT !.pc = "failed"]
  /\ UNCHANGED <<registryCache, registryCacheRefresh, registryCacheMu, rd,
                 imageRef, form, locals, result, hostname, lookup, pc, cfg, req, img>>

\* Mutant of TableAfterFailure: a failed refresh clears the table.
TableClearedByFailure(cache) == EmptyCache

\* The table a failed refresh leaves: the existing entries.
TableAfterFailure(cache) == cache

\* The timestamp a failed refresh leaves: that of the last successful population.
StampAfterFailure(stamp) == stamp

\* The failed refresh returns its error.
RefreshFail ==
  /\ wr.pc = "failed"
  /\ registryCache' = TableAfterFailure(registryCache)
  /\ registryCacheRefresh' = StampAfterFailure(registryCacheRefresh)
  /\ wr' = [wr EXCEPT !.pc = "idle", !.err = TRUE]
  /\ UNCHANGED <<registryCacheMu, rd,
                 imageRef, form, locals, result, hostname, lookup, pc, cfg, req, img>>

\* registryCacheMu.Lock(), taken once the fetch is over.
Lock ==
  /\ wr.pc = "fetched"
  /\ CanLock(registryCacheMu)
  /\ registryCacheMu' = [registryCacheMu EXCEPT !.writer = TRUE]
  /\ wr' = [wr EXCEPT !.pc = "locked", !.before = registryCache, !.after = wr.fetched,
                      !.complete = @ \cup {wr.fetched}]
  /\ UNCHANGED <<registryCache, registryCacheRefresh, rd,
                 imageRef, form, locals, result, hostname, lookup, pc, cfg, req, img>>

\* Under the lock: the old entries are dropped.
Clear ==
  /\ wr.pc = "locked"
  /\ registryCache' = EmptyCache
  /\ wr' = [wr EXCEPT !.pc = "storing"]
  /\ UNCHANGED <<registryCacheRefresh, registryCacheMu, rd,
                 imageRef, form, locals, result, hostname, lookup, pc, cfg, req, img>>

\* Under the lock: one fetched entry is stored.
Store ==
  /\ wr.pc = "storing"
  /\ DOMAIN wr.fetched # DOMAIN registryCache
  /\ LET k == CHOOSE k \in DOMAIN wr.fetched : k \notin DOMAIN registryCache IN
     registryCache' = [x \in DOMAIN registryCache \cup {k} |->
                         IF x = k THEN wr.fetched[k] ELSE registryCache[x]]
  /\ UNCHANGED <<registryCacheRefresh, registryCacheMu, rd, wr,
                 imageRef, form, locals, result, hostname, lookup, pc, cfg, req, img>>

\* Under the lock: the time of this population is recorded.
Stamp ==
  /\ wr.pc = "storing"
  /\ DOMAIN wr.fetched = DOMAIN registryCache
  /\ registryCacheRefresh' = wr.round
  /\ wr' = [wr EXCEPT !.pc = "stamped"]
  /\ UNCHANGED <<registryCache, registryCacheMu, rd,
                 imageRef, form, locals, result, hostname, lookup, pc, cfg, req, img>>

\* registryCacheMu.Unlock(); the refresh returns.
Unlock ==
  /\ wr.pc = "stamped"
  /\ registryCacheMu' = [registryCacheMu EXCEPT !.writer = FALSE]
  /\ wr' = [wr EXCEPT !.pc = "idle"]
  /\ UNCHANGED <<registryCache, registryCacheRefresh, rd,
                 imageRef, form, locals, result, hostname, lookup, pc, cfg, req, img>>

NextCache ==
  \/ \E r \in Readers : Normalize(r)
  \/ \E r \in Readers : RLock(r)
  \/ \E r \in Readers : ReadMap(r)
  \/ \E r \in Readers : RUnlock(r)
  \/ \E r \in Readers : Return(r)
  \/ RefreshStart
  \/ FetchOK
  \/ FetchFail
  \/ RefreshFail
  \/ Lock
  \/ Clear
  \/ Store
  \/ Stamp
  \/ Unlock

SpecCache == InitCache /\ [][NextCache]_vars

\* C9: under any interleaving of lookups with a refresh, the table a lookup
\* holds the read lock on, and the table its read was made on, is the complete
\* table from before the refresh or the complete table from after it, never a
\* table in between; what the lookup read and returns is the entry of a
\* complete table.
C9_NoPartialTable ==
  \A r \in Readers :
    /\ rd[r].pc \in {"rlocked", "read"} => registryCache \in {wr.before, wr.after}
    /\ rd[r].pc = "read" => rd[r].seen \in {wr.before, wr.after}
    /\ rd[r].pc \in {"read", "runlocked"} =>
         /\ rd[r].seen \in wr.complete
         /\ MapRead(rd[r].seen, rd[r].key) = [registryName |-> rd[r].registryName,
                                              found |-> rd[r].found]

\* C9 witness: a lookup is waiting for the read lock while the refresh has
\* dropped the old entries and not yet stored all the new ones, and another
\* lookup has read the table from before the refresh.
C9_Witness ==
  /\ wr.pc = "storing"
  /\ registryCache \notin {wr.before, wr.after}
  /\ \E r \in Readers : rd[r].pc = "normalized" /\ rd[r].key \in DOMAIN wr.after
  /\ \E r \in Readers : rd[r].pc = "runlocked" /\ rd[r].seen = wr.before

C11_LookupHasNoSideEffect ==
  [][\A r \in Readers :
       rd'[r] # rd[r] =>
         /\ registryCache' = registryCache
         /\ registryCacheRefresh' = registryCacheRefresh
         /\ wr' = wr
         /\ rd[r].pc = "runlocked" => rd'[r].pc = "idle"]_vars

\* C11 witness: a lookup that missed has returned (its frame is idle again)
\* next to one that is about to return its miss, the table being the one the
\* miss was read on and no refresh having run.
C11_Witness ==
  /\ \E r \in Readers :
       /\ rd[r].pc = "runlocked"
       /\ ~rd[r].found
       /\ rd[r].seen = registryCache
  /\ \E r \in Readers : rd[r].pc = "idle"
  /\ wr.pc = "idle"
  /\ wr.round = 0
  /\ registryCacheRefresh = 0

---------------------------------------------------------------------------
(* Registry mirrors: ParseRegistryMirrors, the mirror rewrite and the        *)
(* real client's ConvertImageRef are not part of the sources (main.go calls  *)
(* them); they are modelled from the specification, section 4.2.  main's     *)
(* start-up is modelled from main.go.                                        *)

\* strings.TrimSpace on the blank.
RECURSIVE TrimLeft(_)
TrimLeft(s) == IF Len(s) > 0 /\ Head(s) = " " THEN TrimLeft(Tail(s)) ELSE s

RECURSIVE TrimRight(_)
TrimRight(s) ==
  IF Len(s) > 0 /\ s[Len(s)] = " " THEN TrimRight(SubSeq(s, 1, Len(s) - 1)) ELSE s

TrimSpace(s) == TrimRight(TrimLeft(s))

\* strings.Split(s, c) for a one-character c: the pieces between the c's.
RECURSIVE Split(_, _)
Split(s, c) ==
  IF Contains(s, c)
    THEN <<Slice(s, 0, Index(s, c))>> \o Split(Slice(s, Index(s, c) + 1, Len(s)), c)
    ELSE <<s>>

\* One "source=mirror" entry: the mapping, or an error when the '=' is
\* missing or the source or the target is empty.
ParseMirrorEntry(entry) ==
  LET e == TrimSpace(entry) IN
  IF ~Contains(e, "=")
    THEN [err |-> TRUE, Source |-> Empty, Mirror |-> Empty]
    ELSE LET src == TrimSpace(Slice(e, 0, Index(e, "=")))
             dst == TrimSpace(Slice(e, Index(e, "=") + 1, Len(e)))
         IN  IF src = Empty \/ dst = Empty
               THEN [err |-> TRUE, Source |-> Empty, Mirror |-> Empty]
               ELSE [err |-> FALSE, Source |-> src, Mirror |-> dst]

\* ParseRegistryMirrors(spec): the mappings in order, or an error (and no
\* mappings) when an entry is malformed.  The empty string configures none.
ParseRegistryMirrors(spec) ==
  IF TrimSpace(spec) = Empty
    THEN [err |-> FALSE, mirrors |-> << >>]
    ELSE LET parts == Split(spec, ",")
             parsed == [i \in 1..Len(parts) |-> ParseMirrorEntry(parts[i])]
         IN  IF \E i \in 1..Len(parts) : parsed[i].err
               THEN [err |-> TRUE, mirrors |-> << >>]
               ELSE [err |-> FALSE,
                     mirrors |-> [i \in 1..Len(parts) |->
                                    [Source |-> parsed[i].Source, Mirror |-> parsed[i].Mirror]]]

\* Mutant of ResolveMirror: no rewrite, the host is looked up as parsed.
ResolveMirrorNever(host, mirrors) == host

\* resolve(host, mappings): the mirror of the first mapping whose source is
\* exactly the host, the host itself when there is none.
ResolveMirror(host, mirrors) ==
  IF \E i \in 1..Len(mirrors) : mirrors[i].Source = host
    THEN LET i == CHOOSE i \in 1..Len(mirrors) :
                    /\ mirrors[i].Source = host
                    /\ \A j \in 1..(i - 1) : mirrors[j].Source # host
         IN  mirrors[i].Mirror
    ELSE host

\* The real client's ConvertImageRef: the parse of the mock, the mirror
\* rewrite of the registry host, then the lookup with the rewritten host.
ConvertImageRefMirroredOf(cache, mirrors, ref) ==
  LET p == ParseImageRef(ref)
      key == ResolveMirror(p.hostname, mirrors)
      lk == GetRegistryNameOf(cache, key)
  IN  IF lk.err
        THEN ErrorReturn(p, lk)
        ELSE [err |-> FALSE, registryName |-> lk.registryName,
              imageName |-> p.repository, tag |-> p.tag,
              errRef |-> Empty, errCause |-> Empty]

\* Mutant of AfterParseMirrors: the error is logged and main goes on.
AfterParseMirrorsGoOn(err) == "parsed"

\* main: if err != nil { setupLog.Error(...); os.Exit(1) }
AfterParseMirrors(err) == IF err THEN "exited" ELSE "parsed"

\* Registry hostnames of the mirror configuration.
MirrorA == <<"m", ".", "a">>
MirrorB == <<"m", ".", "b">>
MirrorHosts == {DockerIO, MirrorA, MirrorB}

\* Entries an operator may write: well formed (one of them padded with
\* blanks), and malformed in each of the three ways.
GoodEntries ==
  {[text |-> s \o <<"=">> \o d, ok |-> TRUE, Source |-> s, Mirror |-> d] :
     s \in MirrorHosts, d \in MirrorHosts}
    \cup {[text |-> <<" ">> \o DockerIO \o <<" ", "=", " ">> \o MirrorA \o <<" ">>,
           ok |-> TRUE, Source |-> DockerIO, Mirror |-> MirrorA]}
BadEntries ==
  {[text |-> t, ok |-> FALSE, Source |-> Empty, Mirror |-> Empty] :
     t \in {MirrorA, <<"=">> \o MirrorA, MirrorA \o <<"=">>, <<" ", "=", " ">>}}
EntryPool == GoodEntries \cup BadEntries

\* Longest mirror list, in entries.
MaxEntries == 2

EntryLists == UNION {[1..n -> EntryPool] : n \in 0..MaxEntries}

\* The flag value: the entries joined by commas.
RECURSIVE JoinEntries(_)
JoinEntries(es) ==
  IF Len(es) = 0 THEN Empty
  ELSE IF Len(es) = 1 THEN es[1].text
  ELSE es[1].text \o <<",">> \o JoinEntries(Tail(es))

\* References whose registry hosts are the hosts of the configuration.
MirrorRefs ==
  {<<"x">>, MirrorA \o <<"/", "x">>, MirrorB \o <<"/", "x", ":", "t">>}

\* Tables: empty, one registry alone, all three.
MirrorCaches ==
  {EmptyCache}
    \cup {[k \in {h} |-> "Only"] : h \in MirrorHosts}
    \cup {[k \in MirrorHosts |-> "All"]}

InitMirror ==
  /\ registryCache \in MirrorCaches
  /\ registryCacheRefresh = 0
  /\ registryCacheMu = Unlocked
  /\ \E es \in EntryLists :
       cfg = [pc |-> "start", entries |-> es, registryMirrors |-> JoinEntries(es),
              err |-> FALSE, mirrors |-> << >>, client |-> FALSE, controllers |-> FALSE]
  /\ imageRef = Empty
  /\ form = NoValue
  /\ locals = NoValue
  /\ result = NoValue
  /\ hostname = Empty
  /\ lookup = NoValue
  /\ pc = "ready"
  /\ rd = NoValue
  /\ wr = NoValue
  /\ req = NoValue
  /\ img = NoValue

\* main: mirrors, err := aqua.ParseRegistryMirrors(registryMirrors), and the
\* exit on error.
MainParseMirrors ==
  /\ cfg.pc = "start"
  /\ LET got == ParseRegistryMirrors(cfg.registryMirrors) IN
     cfg' = [cfg EXCEPT !.pc = AfterParseMirrors(got.err),
                        !.err = got.err, !.mirrors = got.mirrors]
  /\ UNCHANGED <<registryCache, registryCacheRefresh, registryCacheMu,
                 imageRef, form, locals, result, hostname, lookup, pc, rd, wr, req, img>>

\* main: aquaClient := aqua.NewClient(aqua.Config{..., RegistryMirrors: mirrors})
MainNewClient ==
  /\ cfg.pc = "parsed"
  /\ cfg' = [cfg EXCEPT !.pc = "client", !.client = TRUE]
  /\ UNCHANGED <<registryCache, registryCacheRefresh, registryCacheMu,
                 imageRef, form, locals, result, hostname, lookup, pc, rd, wr, req, img>>

\* main: the manager and the controllers that hold the client are set up;
\* main exits when the manager or a controller cannot be created.
MainSetupControllers ==
  /\ cfg.pc = "client"
  /\ \E ok \in BOOLEAN :
       cfg' = IF ok THEN [cfg EXCEPT !.pc = "serving", !.controllers = TRUE]
                    ELSE [cfg EXCEPT !.pc = "exited"]
  /\ UNCHANGED <<registryCache, registryCacheRefresh, registryCacheMu,
                 imageRef, form, locals, result, hostname, lookup, pc, rd, wr, req, img>>

\* A controller calls the client's ConvertImageRef.
ConvertImageRefMirrored ==
  /\ cfg.pc = "serving"
  /\ pc = "ready"
  /\ pc' = "done"
  /\ \E ref \in MirrorRefs :
       /\ imageRef' = ref
       /\ locals' = ParseImageRef(ref)
       /\ hostname' = ResolveMirror(locals'.hostname, cfg.mirrors)
       /\ lookup' = GetRegistryNameOf(registryCache, hostname')
       /\ result' = ConvertImageRefMirroredOf(registryCache, cfg.mirrors, ref)
  /\ UNCHANGED <<registryCache, registryCacheRefresh, registryCacheMu,
                 form, rd, wr, cfg, req, img>>

NextMirror ==
  \/ MainParseMirrors
  \/ MainNewClient
  \/ MainSetupControllers
  \/ ConvertImageRefMirrored

SpecMirror == InitMirror /\ [][NextMirror]_vars

\* The sources of a mirror list are unique.
UniqueSources(mirrors) ==
  \A i, j \in 1..Len(mirrors) : mirrors[i].Source = mirrors[j].Source => i = j

C14_MalformedMirrorsExit ==
  (/\ \E i \in 1..Len(cfg.entries) : ~cfg.entries[i].ok
   /\ cfg.pc # "start")
  => /\ cfg.pc = "exited"
     /\ cfg.err
     /\ cfg.mirrors = << >>
     /\ ~cfg.client
     /\ ~cfg.controllers
     /\ pc = "ready"

\* C14 witness: main has exited on a list whose first entry is well formed
\* and whose second is malformed.
C14_Witness ==
  /\ cfg.pc = "exited"
  /\ Len(cfg.entries) = 2
  /\ cfg.entries[1].ok
  /\ ~cfg.entries[2].ok
  /\ ~cfg.client

\* The parser accepts exactly the lists of well-formed entries, as written.
MirrorsParsedAsWritten ==
  cfg.pc \in {"parsed", "client", "serving"} =>
    /\ \A i \in 1..Len(cfg.entries) : cfg.entries[i].ok
    /\ cfg.mirrors = [i \in 1..Len(cfg.entries) |->
                        [Source |-> cfg.entries[i].Source, Mirror |-> cfg.entries[i].Mirror]]

---------------------------------------------------------------------------
(* Request signing, auth.go.  HMAC-SHA256 is replaced by a small keyed      *)
(* digest of the same shape (a hash of the key and an inner hash of the key *)
(* and the message, hex-encoded in lower case); the properties checked rest *)
(* on it being a function of the message and the secret, not on its         *)
(* strength.                                                                *)

\* The characters of methods, URLs, timestamps, bodies and secrets.
SignAlphabet ==
  <<"G", "P", "u", "/", "b", "\n", "k", "K", "T", "Z",
    "0", "1", "2", "3", "4", "5", "6", "7", "8", "9">>

\* []byte(s)
CharCode(c) == CHOOSE i \in 1..Len(SignAlphabet) : SignAlphabet[i] = c
Bytes(s) == [i \in 1..Len(s) |-> CharCode(s[i])]

\* The hash: one byte, sensitive to every byte and to their order.
RECURSIVE DigestFrom(_, _)
DigestFrom(h, bs) ==
  IF Len(bs) = 0 THEN h ELSE DigestFrom((h * 31 + Head(bs)) % 256, Tail(bs))
Digest(bs) == DigestFrom(7, bs)

\* hex.EncodeToString
HexDigits == <<"0", "1", "2", "3", "4", "5", "6", "7", "8", "9", "a", "b", "c", "d", "e", "f">>
HexEncode(n) == <<HexDigits[(n \div 16) + 1], HexDigits[(n % 16) + 1]>>

\* computeHMAC256(message, secret)
computeHMAC256(message, secret) ==
  LET inner == Digest(Bytes(secret) \o <<54>> \o Bytes(message))
  IN  HexEncode(Digest(Bytes(secret) \o <<92>> \o <<inner>>))

\* Mutant of HmacEqual: only the common prefix is compared.
HmacEqualPrefix(a, b) ==
  \A i \in 1..(IF Len(a) < Len(b) THEN Len(a) ELSE Len(b)) : a[i] = b[i]

\* hmac.Equal(a, b): same length and the same byte at every position.
HmacEqual(a, b) ==
  /\ Len(a) = Len(b)
  /\ \A i \in 1..Len(a) : a[i] = b[i]

\* ValidateHMACSignature(message, signature, secret)
ValidateHMACSignature(message, signature, secret) ==
  LET expectedSig == computeHMAC256(message, secret)
  IN  HmacEqual(signature, expectedSig)

\* Longest time, in seconds, a call to time.Now() may return.
MaxTime == 2
Times == 0..MaxTime

\* time.Now().UTC().Format(time.RFC3339), one string per second.
Format(t) == <<"T", HexDigits[t + 1], "Z">>

\* Mutant of StringToSign: the URL before the method.
StringToSignUrlFirst(method, url, timestamp, body) ==
  url \o <<"\n">> \o method \o <<"\n">> \o timestamp \o <<"\n">> \o body

\* fmt.Sprintf("%s\n%s\n%s\n%s", req.Method, req.URL.String(), timestamp, string(body))
StringToSign(method, url, timestamp, body) ==
  method \o <<"\n">> \o url \o <<"\n">> \o timestamp \o <<"\n">> \o body

\* req.Header.Set(key, value): the key's values are replaced by the one value.
HeaderSet(header, key, value) == [header EXCEPT ![key] = <<value>>]

\* Mutant of NoSigningConfigured: the request is signed whatever the secret.
NoSigningConfiguredNever(secret) == FALSE

\* if tm.config.HMACSecret == ""
NoSigningConfigured(secret) == secret = Empty

\* SignRequest(req, body) with the secret of the token manager and the
\* time the one call of time.Now() returns: the error and the request.
SignRequestOf(secret, r, body, now) ==
  IF NoSigningConfigured(secret)
    THEN [err |-> FALSE, Method |-> r.Method, URL |-> r.URL, Header |-> r.Header]
    ELSE LET timestamp == Format(now)
             stringToSign == StringToSign(r.Method, r.URL, timestamp, body)
             signature == computeHMAC256(stringToSign, secret)
         IN  [err |-> FALSE, Method |-> r.Method, URL |-> r.URL,
              Header |-> HeaderSet(HeaderSet(r.Header, "X-Aqua-Timestamp", timestamp),
                                   "X-Aqua-Signature", signature)]

\* Requests to sign.
Methods == {<<"G">>, <<"P">>}
URLs == {<<"u">>, <<"u", "/", "u">>}
Bodies == {Empty, <<"b">>, <<"\n", "b">>}
Secrets == {Empty, <<"k">>, <<"K", "k">>}
HeaderNames == {"Authorization", "X-Aqua-Timestamp", "X-Aqua-Signature"}

\* Headers of the request before signing: none; a token; a token and values
\* left from an earlier signing.
NoHeader == [k \in HeaderNames |-> << >>]
Headers ==
  {NoHeader,
   [NoHeader EXCEPT !["Authorization"] = << <<"b">> >>],
   [NoHeader EXCEPT !["Authorization"] = << <<"b">> >>,
                    !["X-Aqua-Timestamp"] = <<Format(0), Format(0)>>,
                    !["X-Aqua-Signature"] = << <<"0", "0">> >>]}

\* Messages of inbound callbacks.
CallbackMessages ==
  {StringToSign(m, <<"u">>, Format(0), b) : m \in Methods, b \in Bodies}

\* The other case of a hexadecimal letter.
ToUpperHex(c) ==
  CASE c = "a" -> "A" [] c = "b" -> "B" [] c = "c" -> "C"
    [] c = "d" -> "D" [] c = "e" -> "E" [] c = "f" -> "F" [] OTHER -> c

\* Signatures a caller may supply for an expected one: the signature itself,
\* one digit altered, shortened, lengthened, in upper case, empty.
Supplied(sig) ==
  {sig,
   <<(IF sig[1] = "0" THEN "1" ELSE "0"), sig[2]>>,
   <<sig[1], (IF sig[2] = "0" THEN "1" ELSE "0")>>,
   <<sig[1]>>,
   sig \o <<"0">>,
   <<ToUpperHex(sig[1]), ToUpperHex(sig[2])>>,
   Empty}

InitSign ==
  /\ \E secret \in Secrets, method \in Methods, url \in URLs,
        header \in Headers, body \in Bodies :
       req = [pc |-> "ready", secret |-> secret, Method |-> method, URL |-> url,
              Header |-> header, body |-> body, err |-> FALSE,
              before |-> [Method |-> method, URL |-> url, Header |-> header, body |-> body],
              check |-> NoValue]
  /\ registryCache = EmptyCache
  /\ registryCacheRefresh = 0
  /\ registryCacheMu = Unlocked
  /\ imageRef = Empty
  /\ form = NoValue
  /\ locals = NoValue
  /\ result = NoValue
  /\ hostname = Empty
  /\ lookup = NoValue
  /\ pc = "ready"
  /\ rd = NoValue
  /\ wr = NoValue
  /\ cfg = NoValue
  /\ img = NoValue

\* TokenManager.SignRequest(req, body)
SignRequest ==
  /\ req.pc = "ready"
  /\ \E now \in Times :
       LET out == SignRequestOf(req.secret, req, req.body, now) IN
       req' = [req EXCEPT !.pc = "signed", !.err = out.err, !.Method = out.Method,
                          !.URL = out.URL, !.Header = out.Header]
  /\ UNCHANGED <<registryCache, registryCacheRefresh, registryCacheMu, imageRef, form,
                 locals, result, hostname, lookup, pc, rd, wr, cfg, img>>

\* ValidateHMACSignature(message, signature, secret) on an inbound callback.
ValidateCallback ==
  /\ req.check = NoValue
  /\ \E message \in CallbackMessages, secret \in Secrets :
       \E signature \in Supplied(computeHMAC256(message, secret)) :
         req' = [req EXCEPT !.check =
                   [message |-> message, signature |-> signature, secret |-> secret,
                    valid |-> ValidateHMACSignature(message, signature, secret)]]
  /\ UNCHANGED <<registryCache, registryCacheRefresh, registryCacheMu, imageRef, form,
                 locals, result, hostname, lookup, pc, rd, wr, cfg, img>>

NextSign ==
  \/ SignRequest
  \/ ValidateCallback

SpecSign == InitSign /\ [][NextSign]_vars

\* C15: after SignRequest with a non-empty secret the request carries exactly
\* one X-Aqua-Timestamp and one X-Aqua-Signature value, the signature is the
\* HMAC of method, URL, timestamp and body joined by newlines, in that order
\* and with no trailing newline, built with the timestamp that is in the
\* header, and ValidateHMACSignature accepts it for that message.
C15_SignedWithHeaderTimestamp ==
  (req.pc = "signed" /\ req.secret # Empty) =>
    /\ ~req.err
    /\ Len(req.Header["X-Aqua-Timestamp"]) = 1
    /\ Len(req.Header["X-Aqua-Signature"]) = 1
    /\ req.Header["X-Aqua-Timestamp"][1] \in {Format(t) : t \in Times}
    /\ LET message == req.Method \o <<"\n">> \o req.URL \o <<"\n">>
                        \o req.Header["X-Aqua-Timestamp"][1] \o <<"\n">> \o req.body
       IN  /\ req.Header["X-Aqua-Signature"][1] = computeHMAC256(message, req.secret)
           /\ ValidateHMACSignature(message, req.Header["X-Aqua-Signature"][1], req.secret)

\* C15 witness: a request that carried two stale timestamp values was signed
\* at a later time and now carries one timestamp and one signature.
C15_Witness ==
  /\ req.pc = "signed"
  /\ req.secret # Empty
  /\ Len(req.before.Header["X-Aqua-Timestamp"]) = 2
  /\ req.Header["X-Aqua-Timestamp"] = <<Format(1)>>
  /\ Len(req.Header["X-Aqua-Signature"]) = 1
  /\ req.body # Empty

\* C16: with no secret configured SignRequest returns no error and leaves the
\* request as it was: no X-Aqua-Timestamp or X-Aqua-Signature value is added,
\* and header, method, URL and body are those from before the call.
C16_NoSecretNoChange ==
  (req.pc = "signed" /\ req.secret = Empty) =>
    /\ ~req.err
    /\ req.Header = req.before.Header
    /\ req.Method = req.before.Method
    /\ req.URL = req.before.URL
    /\ req.body = req.before.body
    /\ Len(req.Header["X-Aqua-Timestamp"]) = Len(req.before.Header["X-Aqua-Timestamp"])
    /\ Len(req.Header["X-Aqua-Signature"]) = Len(req.before.Header["X-Aqua-Signature"])

\* C16 witness: SignRequest returned for a request with a token header and no
\* signing headers, no secret configured, and the request has neither header.
C16_Witness ==
  /\ req.pc = "signed"
  /\ req.secret = Empty
  /\ req.Header["Authorization"] # << >>
  /\ req.Header["X-Aqua-Timestamp"] = << >>
  /\ req.Header["X-Aqua-Signature"] = << >>

\* C17: verification accepts the signature computed for the message and the
\* secret, and rejects every signature that differs from it in a position or
\* in length.
C17_ValidateRoundTrip ==
  req.check # NoValue =>
    LET expected == computeHMAC256(req.check.message, req.check.secret)
        supplied == req.check.signature
    IN  /\ supplied = expected => req.check.valid
        /\ Len(supplied) # Len(expected) => ~req.check.valid
        /\ (\E i \in 1..Len(expected) : i <= Len(supplied) /\ supplied[i] # expected[i])
             => ~req.check.valid

\* C17 witness: a supplied signature one character longer than the computed
\* one, equal to it on every position the two share, was rejected.
C17_Witness ==
  /\ req.check # NoValue
  /\ LET expected == computeHMAC256(req.check.message, req.check.secret) IN
     /\ Len(req.check.signature) = Len(expected) + 1
     /\ \A i \in 1..Len(expected) : req.check.signature[i] = expected[i]
  /\ ~req.check.valid

---------------------------------------------------------------------------
(* GetImageInfo, manifest.go.  The calls into the registry library         *)
(* (name.ParseReference, remote.Get, desc.Image, img.ConfigName,           *)
(* img.Digest) are steps whose outcome the environment chooses.            *)

\* The library calls of GetImageInfo, in the order of the code.
StageOrder == <<"ParseReference", "Get", "Image", "ConfigName", "Digest">>

\* The text each stage's error is wrapped in.
StageMsg ==
  <<"parsing image reference", "fetching image descriptor",
    "getting image from descriptor", "getting config digest",
    "getting manifest digest">>

\* Errors a library call may return.
Causes == {"timeout", "unauthorized", "not found"}

\* Digests a registry may report.
Digests == {"sha256:1", "sha256:2"}

\* References and what name.ParseReference makes of them: an error, a tagged
\* reference, or a digest reference.
References ==
  {[text |-> "UPPER", valid |-> FALSE, isTag |-> FALSE,
    Registry |-> "", Repository |-> "", Tag |-> ""],
   [text |-> "a:b:c", valid |-> FALSE, isTag |-> FALSE,
    Registry |-> "", Repository |-> "", Tag |-> ""],
   [text |-> "nginx", valid |-> TRUE, isTag |-> TRUE,
    Registry |-> "index.docker.io", Repository |-> "library/nginx", Tag |-> "latest"],
   [text |-> "nginx:1.2", valid |-> TRUE, isTag |-> TRUE,
    Registry |-> "index.docker.io", Repository |-> "library/nginx", Tag |-> "1.2"],
   [text |-> "gcr.io/p/i:v1", valid |-> TRUE, isTag |-> TRUE,
    Registry |-> "gcr.io", Repository |-> "p/i", Tag |-> "v1"],
   [text |-> "gcr.io/p/i@sha256:1", valid |-> TRUE, isTag |-> FALSE,
    Registry |-> "gcr.io", Repository |-> "p/i", Tag |-> ""],
   [text |-> "r.io:5000/i", valid |-> TRUE, isTag |-> TRUE,
    Registry |-> "r.io:5000", Repository |-> "i", Tag |-> "latest"]}

\* return nil, fmt.Errorf("<stage>: %w", err)
Wrapped(stage, cause) == [msg |-> StageMsg[stage], cause |-> cause]

\* The call has returned the error of the stage just tried.
Failed(g, stage, cause) ==
  [g EXCEPT !.pc = "returned",
            !.calls = Append(@, StageOrder[stage]),
            !.outcomes = Append(@, cause),
            !.err = Wrapped(stage, cause)]

\* The stage just tried has succeeded; the call goes on at position next.
Passed(g, stage, next) ==
  [g EXCEPT !.pc = next,
            !.calls = Append(@, StageOrder[stage]),
            !.outcomes = Append(@, "ok")]

InitImageInfo ==
  /\ \E ref \in References :
       img = [pc |-> "start", ref |-> ref, calls |-> << >>, outcomes |-> << >>,
              configName |-> "", info |-> NoValue, err |-> NoValue]
  /\ registryCache = EmptyCache
  /\ registryCacheRefresh = 0
  /\ registryCacheMu = Unlocked
  /\ imageRef = Empty
  /\ form = NoValue
  /\ locals = NoValue
  /\ result = NoValue
  /\ hostname = Empty
  /\ lookup = NoValue
  /\ pc = "ready"
  /\ rd = NoValue
  /\ wr = NoValue
  /\ cfg = NoValue
  /\ req = NoValue

\* ref, err := name.ParseReference(imageRef)
ParseReference ==
  /\ img.pc = "start"
  /\ img' = IF img.ref.valid
              THEN Passed(img, 1, "parsed")
              ELSE Failed(img, 1, "could not parse reference")
  /\ UNCHANGED <<registryCache, registryCacheRefresh, registryCacheMu, imageRef, form,
                 locals, result, hostname, lookup, pc, rd, wr, cfg, req>>

\* Mutant of RemoteGet: a failed fetch is tried again.
RemoteGetRetry ==
  /\ img.pc = "parsed"
  /\ Len(img.calls) < 3
  /\ \/ img' = Passed(img, 2, "fetched")
     \/ img' = [img EXCEPT !.calls = Append(@, StageOrder[2]),
                           !.outcomes = Append(@, "timeout")]
  /\ UNCHANGED <<registryCache, registryCacheRefresh, registryCacheMu, imageRef, form,
                 locals, result, hostname, lookup, pc, rd, wr, cfg, req>>

\* desc, err := remote.Get(ref, options...)
RemoteGet ==
  /\ img.pc = "parsed"
  /\ \/ img' = Passed(img, 2, "fetched")
     \/ \E cause \in Causes : img' = Failed(img, 2, cause)
  /\ UNCHANGED <<registryCache, registryCacheRefresh, registryCacheMu, imageRef, form,
                 locals, result, hostname, lookup, pc, rd, wr, cfg, req>>

\* img, err := desc.Image()
DescImage ==
  /\ img.pc = "fetched"
  /\ \/ img' = Passed(img, 3, "image")
     \/ \E cause \in Causes : img' = Failed(img, 3, cause)
  /\ UNCHANGED <<registryCache, registryCacheRefresh, registryCacheMu, imageRef, form,
                 locals, result, hostname, lookup, pc, rd, wr, cfg, req>>

\* configName, err := img.ConfigName()
ConfigName ==
  /\ img.pc = "image"
  /\ \/ \E d \in Digests : img' = [Passed(img, 4, "config") EXCEPT !.configName = d]
     \/ \E cause \in Causes : img' = Failed(img, 4, cause)
  /\ UNCHANGED <<registryCache, registryCacheRefresh, registryCacheMu, imageRef, form,
                 locals, result, hostname, lookup, pc, rd, wr, cfg, req>>

\* manifestDigest, err := img.Digest(), then the ImageInfo is built from the
\* reference and the two digests and returned.
ManifestDigest ==
  /\ img.pc = "config"
  /\ \/ \E d \in Digests :
          img' = [Passed(img, 5, "returned") EXCEPT
                    !.info = [ConfigDigest |-> img.configName,
                              ManifestDigest |-> d,
                              Registry |-> img.ref.Registry,
                              Repository |-> img.ref.Repository,
                              Tag |-> IF img.ref.isTag THEN img.ref.Tag ELSE "latest"]]
     \/ \E cause \in Causes : img' = Failed(img, 5, cause)
  /\ UNCHANGED <<registryCache, registryCacheRefresh, registryCacheMu, imageRef, form,
                 locals, result, hostname, lookup, pc, rd, wr, cfg, req>>

NextImageInfo ==
  \/ ParseReference
  \/ RemoteGet
  \/ DescImage
  \/ ConfigName
  \/ ManifestDigest

SpecImageInfo == InitImageInfo /\ [][NextImageInfo]_vars

\* C18: GetImageInfo performs its stages in the fixed order parse, fetch,
\* image, config digest, manifest digest, each at most once, and stops at the
\* first that fails: it returns a nil ImageInfo and an error wrapping that
\* stage's cause, with no later stage performed; a reference that does not
\* parse causes no fetch; a non-nil ImageInfo is returned only after all five
\* stages succeeded.
C18_StagesStopAtFirstFailure ==
  /\ Len(img.calls) <= Len(StageOrder)
  /\ \A i \in 1..Len(img.calls) : img.calls[i] = StageOrder[i]
  /\ \A i \in 1..(Len(img.calls) - 1) : img.outcomes[i] = "ok"
  /\ (Len(img.calls) > 0 /\ img.outcomes[Len(img.calls)] # "ok") =>
       /\ img.pc = "returned"
       /\ img.info = NoValue
       /\ img.err = [msg |-> StageMsg[Len(img.calls)],
                     cause |-> img.outcomes[Len(img.calls)]]
  /\ ~img.ref.valid => \A i \in 1..Len(img.calls) : img.calls[i] = "ParseReference"
  /\ img.info # NoValue =>
       /\ img.pc = "returned"
       /\ img.err = NoValue
       /\ img.calls = StageOrder
       /\ \A i \in 1..Len(StageOrder) : img.outcomes[i] = "ok"
  /\ (img.pc = "returned" /\ img.err = NoValue) => img.info # NoValue
  /\ img.pc # "returned" => (img.info = NoValue /\ img.err = NoValue)

\* C18 witness: the fetch succeeded, obtaining the image failed, and the call
\* returned nil with that stage's error after three calls.
C18_Witness ==
  /\ img.pc = "returned"
  /\ img.calls = <<"ParseReference", "Get", "Image">>
  /\ img.outcomes = <<"ok", "ok", "unauthorized">>
  /\ img.info = NoValue
  /\ img.err = [msg |-> "getting image from descriptor", cause |-> "unauthorized"]

---------------------------------------------------------------------------
(* Specification of one normalizeHostname call on a hostname preceded by    *)
(* none, one or two scheme prefixes.                                        *)

InitNormalize ==
  /\ form \in [outer : Schemes, scheme : Schemes, host : BareHosts]
  /\ hostname = form.outer \o form.scheme \o form.host
  /\ registryCache = EmptyCache
  /\ registryCacheRefresh = 0
  /\ registryCacheMu = Unlocked
  /\ imageRef = Empty
  /\ locals = NoValue
  /\ result = NoValue
  /\ lookup = NoValue
  /\ pc = "ready"
  /\ rd = NoValue
  /\ wr = NoValue
  /\ cfg = NoValue
  /\ req = NoValue
  /\ img = NoValue

\* normalizeHostname(hostname)
NormalizeHostname ==
  /\ pc = "ready"
  /\ pc' = "done"
  /\ result' = [normalized |-> normalizeHostname(hostname)]
  /\ UNCHANGED <<registryCache, registryCacheRefresh, registryCacheMu,
                 imageRef, form, locals, hostname, lookup, rd, wr, cfg, req, img>>

NextNormalize == NormalizeHostname

SpecNormalize == InitNormalize /\ [][NextNormalize]_vars

\* C21: the result of normalizeHostname starts with neither "http://" nor
\* "https://", and normalizing it again returns it unchanged, also for inputs
\* with two stacked scheme prefixes in either order.
C21_NormalizeIdempotent ==
  pc = "done" =>
    /\ ~HasPrefix(result.normalized, Http)
    /\ ~HasPrefix(result.normalized, Https)
    /\ normalizeHostname(result.normalized) = result.normalized

---------------------------------------------------------------------------
(* Properties of the parser, checked under SpecParse. *)

\* The text of s after its last '/', the whole of s when it has none.
AfterLastSlash(s) == Slice(s, LastIndex(s, "/") + 1, Len(s))

\* The text of s before its first '/'.
BeforeFirstSlash(s) == Slice(s, 0, Index(s, "/"))

\* The text of s after its first '/'.
AfterFirstSlash(s) == Slice(s, Index(s, "/") + 1, Len(s))

\* The text of s before its first '@'.
BeforeFirstAt(s) == Slice(s, 0, Index(s, "@"))

\* C1: every reference that contains a '/' and has no ':' after its last '/'
\* is returned with tag "latest", host:port/repository forms whose host has
\* no '.' included.
C1_NoColonAfterSlashIsLatest ==
  (/\ pc = "done"
   /\ ~result.err
   /\ Contains(imageRef, "/")
   /\ ~Contains(AfterLastSlash(imageRef), ":"))
  => result.tag = Latest

\* C3: the host is "docker.io" and the repository the whole working reference
\* when the working reference has no '/' or its text before the first '/' has
\* no '.'; otherwise the text before the first '/' is the host and the text
\* after it the repository.
C3_HostRepositorySplit ==
  pc = "done" =>
    LET w == locals.imageRef IN
    IF ~Contains(w, "/") \/ ~Contains(BeforeFirstSlash(w), ".")
      THEN locals.hostname = DockerIO /\ locals.repository = w
      ELSE /\ locals.hostname = BeforeFirstSlash(w)
           /\ locals.repository = AfterFirstSlash(w)

\* C3 witness: a call that split a dotted host with a port from a repository,
\* the lookup being made with that host.
C3_Witness ==
  /\ pc = "done"
  /\ locals.hasPort
  /\ locals.hostname # DockerIO
  /\ hostname = BeforeFirstSlash(locals.imageRef)
  /\ Len(locals.repository) > 0

\* C4: a digest suffix does not influence the result: parsing r@d gives the
\* host, repository and tag of parsing r (r the text before the first '@'),
\* the call returns what the call on r returns, and the tag holds no '@'.
C4_DigestIgnored ==
  (pc = "done" /\ Contains(imageRef, "@")) =>
    LET r == BeforeFirstAt(imageRef)
        pr == ParseImageRef(r)
        cr == ConvertImageRefOf(registryCache, r)
    IN  /\ locals.hostname = pr.hostname
        /\ locals.repository = pr.repository
        /\ locals.tag = pr.tag
        /\ result.err = cr.err
        /\ result.registryName = cr.registryName
        /\ result.imageName = cr.imageName
        /\ result.tag = cr.tag
        /\ ~Contains(locals.tag, "@")
        /\ ~Contains(result.tag, "@")

\* C4 witness: a tagged and digested reference whose digest itself holds an
\* '@', returned with its tag.
C4_Witness ==
  /\ pc = "done"
  /\ ~result.err
  /\ Contains(imageRef, "@")
  /\ Contains(AfterFirstSlash(imageRef), "@")
  /\ Index(imageRef, "@") # LastIndex(imageRef, "@")
  /\ result.tag # Latest
  /\ Len(result.tag) > 0

\* C5: the returned repository neither starts nor ends with '/'.
C5_RepositoryNoEdgeSlash ==
  (pc = "done" /\ ~result.err /\ Len(result.imageName) > 0) =>
    /\ Head(result.imageName) # "/"
    /\ result.imageName[Len(result.imageName)] # "/"

\* C6: with an empty table every lookup fails with not-found, and
\* ConvertImageRef returns an error with empty registry name, repository and tag.
C6_EmptyCacheFails ==
  (pc = "done" /\ registryCache = EmptyCache) =>
    /\ \A h \in DottedHosts \cup {DockerIO, Empty} :
         GetRegistryNameOf(registryCache, h).err
    /\ lookup.err
    /\ lookup.registryName = ""
    /\ result.err
    /\ result.registryName = ""
    /\ result.imageName = Empty
    /\ result.tag = Empty

\* C6 witness: a failed call on an empty table whose parse had produced a
\* non-empty repository and a tag.
C6_Witness ==
  /\ pc = "done"
  /\ registryCache = EmptyCache
  /\ result.err
  /\ Len(locals.repository) > 0
  /\ Len(locals.tag) > 0

\* C19: ConvertImageRef returns on every input string; it returns an error
\* exactly when the normalized parsed host is not a key of the table, and the
\* error then carries the lookup's error and names the original reference,
\* digest suffix included.
C19_ErrorIffHostAbsent ==
  /\ pc = "ready" => ConvertImageRefOf(registryCache, imageRef).err \in BOOLEAN
  /\ pc = "done" =>
       /\ result.err = (normalizeHostname(locals.hostname) \notin DOMAIN registryCache)
       /\ result.err =>
            /\ lookup.err
            /\ result.errCause = lookup.notFound
            /\ result.errCause = normalizeHostname(locals.hostname)
            /\ result.errRef = imageRef
       /\ ~result.err =>
            /\ result.registryName = registryCache[normalizeHostname(locals.hostname)]
            /\ result.imageName = locals.repository
            /\ result.tag = locals.tag

\* C19 witness: a reference with a tag and a digest whose host is not in a
\* non-empty table: the error names the whole reference.
C19_Witness ==
  /\ pc = "done"
  /\ result.err
  /\ registryCache # EmptyCache
  /\ Contains(imageRef, "@")
  /\ locals.hostname # DockerIO
  /\ locals.imageRef # imageRef
  /\ result.errRef = imageRef

\* The host/repository split with the registry test "candidate contains '.'".
SplitByDotOnly(ref) ==
  LET slashIdx == Index(ref, "/") IN
  IF slashIdx > 0 /\ Contains(Slice(ref, 0, slashIdx), ".")
    THEN [hostname |-> Slice(ref, 0, slashIdx),
          repository |-> Slice(ref, slashIdx + 1, Len(ref))]
    ELSE [hostname |-> DockerIO, repository |-> ref]

\* C20: hasPort never changes the result: the split computed with "contains
\* '.' or (hasPort and contains ':')" equals the split computed with "contains
\* '.'" alone, because hasPort is set only when the text before the last colon
\* has a '.' and no '/', and is then a prefix of the candidate.
C20_HasPortRedundant ==
  pc = "done" =>
    /\ [hostname |-> locals.hostname, repository |-> locals.repository]
         = SplitByDotOnly(locals.imageRef)
    /\ HandleRegistry(locals.imageRef, FALSE) = HandleRegistry(locals.imageRef, locals.hasPort)
    /\ locals.hasPort =>
         LET beforeColon == Slice(locals.imageRef, 0, LastIndex(locals.imageRef, ":")) IN
         /\ Contains(beforeColon, ".")
         /\ ~Contains(beforeColon, "/")
         /\ Contains(locals.imageRef, "/") =>
              HasPrefix(BeforeFirstSlash(locals.imageRef), beforeColon)

\* C20 witness: a call with hasPort set whose candidate holds a ':' (the
\* second test fires) and was taken as the host.
C20_Witness ==
  /\ pc = "done"
  /\ locals.hasPort
  /\ Contains(locals.imageRef, "/")
  /\ Contains(BeforeFirstSlash(locals.imageRef), ":")
  /\ locals.hostname = BeforeFirstSlash(locals.imageRef)

====
